---- MODULE Spec2Model ----
(***************************************************************************)
(* Model of painter.py: a text-command driven ASCII canvas.                *)
(*                                                                         *)
(* Representation.  A Python str is a sequence of one-character strings,   *)
(* so a grid cell, a colour and a rendered snapshot are all sequences of   *)
(* characters.  A Python list is a sequence; Python's zero-based and       *)
(* negative indices and its slices are translated by PyIndex, PySetItem    *)
(* and PySliceAssign.  A line of text is the sequence of the tokens that   *)
(* a single space separates (line.split(" ")), which determines the line.  *)
(***************************************************************************)
EXTENDS Integers, Sequences, FiniteSets, TLC

VARIABLES
    data,       \* main: the lines of the input file (data.splitlines())
    commands,   \* main: the list CommandParser.parse returned
    pc,         \* position of the run
    raised,     \* the exception that ended the run, "" when none
    canvas,     \* Invoker.canvas, or the canvas a command is executed on
    before,     \* the canvas as it was when the current execute was entered
    history,    \* Invoker.history
    idx,        \* position of execute_all's loop in commands (1-based)
    cells,      \* FillCommand.execute: the frontier set
    painted     \* the cells the current FillCommand.execute has written

vars ==
    <<data, commands, pc, raised, canvas, before, history, idx, cells, painted>>

(***************************************************************************)
(* Bounds of the model.                                                    *)
(***************************************************************************)
MaxLines == 3       \* lines of an input text
MaxW == 3           \* width of a canvas a Line or Rectangle is executed on
MaxH == 3           \* height of such a canvas
FillW == 3          \* width of a canvas a Fill is executed on
FillH == 2          \* height of such a canvas
DrawMarks == 1      \* cells of a canvas drawn on that are not background
FillMarks == 2      \* cells of a canvas filled that are not background
ShieldW == 4        \* width of the canvas a rectangle is filled around
ShieldH == 3        \* height of that canvas

(***************************************************************************)
(* Python built-ins.                                                       *)
(***************************************************************************)
Max(a, b) == IF a >= b THEN a ELSE b

Min(a, b) == IF a <= b THEN a ELSE b

\* [x] * n, and "c" * n
Repeat(x, n) == [i \in 1..Max(n, 0) |-> x]

\* "".join(strs)
RECURSIVE Join(_)
Join(strs) == IF strs = <<>> THEN <<>> ELSE Head(strs) \o Join(Tail(strs))

\* lst[i] does not raise IndexError
PyIndexOk(lst, i) == -Len(lst) <= i /\ i < Len(lst)

\* the 1-based position lst[i] addresses
PyPos(lst, i) == IF i < 0 THEN i + Len(lst) + 1 ELSE i + 1

PyIndex(lst, i) == lst[PyPos(lst, i)]

\* lst[i] = v
PySetItem(lst, i, v) == [lst EXCEPT ![PyPos(lst, i)] = v]

\* a slice bound clamped into 0..len(lst)
PySliceBound(lst, i) == IF i < 0 THEN Max(i + Len(lst), 0) ELSE Min(i, Len(lst))

\* lst[a:b] = new
PySliceAssign(lst, a, b, new) ==
    LET lo == PySliceBound(lst, a)
        hi == Max(PySliceBound(lst, b), lo)
    IN  SubSeq(lst, 1, lo) \o new \o SubSeq(lst, hi + 1, Len(lst))

(***************************************************************************)
(* Point and Canvas.                                                       *)
(***************************************************************************)
Point(x, y) == [x |-> x, y |-> y]

None == [isNone |-> TRUE]

Space == <<" ">>

DefaultBrush == <<"x">>

NewCanvas(width, height, background, brush) ==
    [width |-> width, height |-> height, background |-> background,
     grid |-> [j \in 1..height |-> [i \in 1..width |-> background]],
     brush |-> brush]

Canvas(width, height) == NewCanvas(width, height, Space, DefaultBrush)

display(c) ==
    LET line == Repeat("-", c.width + 2) \o <<"\n">>
        inner == [j \in 1..Len(c.grid) |->
                     <<"|">> \o Join(c.grid[j]) \o <<"|">> \o <<"\n">>]
    IN  Join(<<line>> \o inner \o <<line>>)

(***************************************************************************)
(* Commands.  execute returns the canvas it leaves and what it raised.     *)
(***************************************************************************)
CanvasCommand(w, h) == [cls |-> "CanvasCommand", width |-> w, height |-> h]

LineCommand(x1, y1, x2, y2) ==
    [cls |-> "LineCommand", start |-> Point(x1, y1), end |-> Point(x2, y2)]

RectangleCommand(x1, y1, x2, y2) ==
    [cls |-> "RectangleCommand", start |-> Point(x1, y1), end |-> Point(x2, y2)]

FillCommand(x, y, c) == [cls |-> "FillCommand", point |-> Point(x, y), color |-> c]

\* a canvas built with its sides swapped
CanvasCommand_execute_swapped(cmd) == Canvas(cmd.height, cmd.width)

CanvasCommand_execute(cmd) == Canvas(cmd.width, cmd.height)

\* for row in rows r..hi of the grid: row[x] = brush
RECURSIVE DrawColumn(_, _, _, _)
DrawColumn(c, r, hi, x) ==
    IF r > hi THEN [canvas |-> c, raised |-> ""]
    ELSE IF ~PyIndexOk(c.grid[r], x) THEN [canvas |-> c, raised |-> "IndexError"]
    ELSE DrawColumn([c EXCEPT !.grid[r] = PySetItem(c.grid[r], x, c.brush)],
                    r + 1, hi, x)

\* a row slice that stops one cell short
DrawRowShort(c, y, x1, x2) ==
    IF ~PyIndexOk(c.grid, y) THEN [canvas |-> c, raised |-> "IndexError"]
    ELSE LET r == PyPos(c.grid, y)
             row == PySliceAssign(c.grid[r], x1, x2, Repeat(c.brush, x2 - x1))
         IN  [canvas |-> [c EXCEPT !.grid[r] = row], raised |-> ""]

\* canvas.grid[y][x1 : x2 + 1] = [canvas.brush] * (x2 - x1 + 1)
DrawRow(c, y, x1, x2) ==
    IF ~PyIndexOk(c.grid, y) THEN [canvas |-> c, raised |-> "IndexError"]
    ELSE LET r == PyPos(c.grid, y)
             row == PySliceAssign(c.grid[r], x1, x2 + 1,
                                  Repeat(c.brush, x2 - x1 + 1))
         IN  [canvas |-> [c EXCEPT !.grid[r] = row], raised |-> ""]

\* a diagonal that is reported and not raised
draw_line_silent(c, start, end) ==
    IF start.x = end.x
    THEN DrawColumn(c, PySliceBound(c.grid, start.y) + 1,
                    PySliceBound(c.grid, end.y + 1), start.x)
    ELSE IF start.y = end.y
    THEN DrawRow(c, start.y, start.x, end.x)
    ELSE [canvas |-> c, raised |-> ""]

draw_line(c, start, end) ==
    IF start.x = end.x
    THEN LET lo == PySliceBound(c.grid, start.y)
             hi == PySliceBound(c.grid, end.y + 1)
         IN  DrawColumn(c, lo + 1, hi, start.x)
    ELSE IF start.y = end.y
    THEN DrawRow(c, start.y, start.x, end.x)
    ELSE [canvas |-> c, raised |-> "ExecutionError"]

LineCommand_execute(cmd, c) == draw_line(c, cmd.start, cmd.end)

\* a rectangle whose right side is drawn on the left
RectangleLinesLeftTwice(cmd) ==
    LET x1 == cmd.start.x  y1 == cmd.start.y
        x2 == cmd.end.x    y2 == cmd.end.y
    IN  << <<Point(x1, y1), Point(x1, y2)>>,
           <<Point(x1, y1), Point(x2, y1)>>,
           <<Point(x1, y2), Point(x2, y2)>>,
           <<Point(x1, y1), Point(x1, y2)>> >>

\* a rectangle whose last segment runs from corner to opposite corner
RectangleLinesCrossed(cmd) ==
    LET x1 == cmd.start.x  y1 == cmd.start.y
        x2 == cmd.end.x    y2 == cmd.end.y
    IN  << <<Point(x1, y1), Point(x1, y2)>>,
           <<Point(x1, y1), Point(x2, y1)>>,
           <<Point(x1, y2), Point(x2, y2)>>,
           <<Point(x1, y1), Point(x2, y2)>> >>

RectangleLines(cmd) ==
    LET x1 == cmd.start.x  y1 == cmd.start.y
        x2 == cmd.end.x    y2 == cmd.end.y
    IN  << <<Point(x1, y1), Point(x1, y2)>>,
           <<Point(x1, y1), Point(x2, y1)>>,
           <<Point(x1, y2), Point(x2, y2)>>,
           <<Point(x2, y1), Point(x2, y2)>> >>

\* for line in lines: LineCommand.draw_line(canvas, *line)
RECURSIVE DrawLines(_, _)
DrawLines(c, lines) ==
    IF lines = <<>> THEN [canvas |-> c, raised |-> ""]
    ELSE LET r == draw_line(c, Head(lines)[1], Head(lines)[2])
         IN  IF r.raised # "" THEN r ELSE DrawLines(r.canvas, Tail(lines))

RectangleCommand_execute(cmd, c) == DrawLines(c, RectangleLines(cmd))

\* a fill that never looks at the cell above
NeighboursNoUp(current) ==
    { Point(current.x + 1, current.y), Point(current.x, current.y + 1),
      Point(current.x - 1, current.y) }

Neighbours(current) ==
    { Point(current.x + 1, current.y), Point(current.x, current.y + 1),
      Point(current.x - 1, current.y), Point(current.x, current.y - 1) }

\* a neighbour test that never accepts the leftmost column
FillAcceptsNarrow(c, n) ==
    /\ 0 <= n.y /\ n.y < c.height
    /\ 0 < n.x /\ n.x < c.width
    /\ PyIndex(PyIndex(c.grid, n.y), n.x) = c.background

\* the test of the inner loop of FillCommand.execute
FillAccepts(c, n) ==
    /\ 0 <= n.y /\ n.y < c.height
    /\ 0 <= n.x /\ n.x < c.width
    /\ PyIndex(PyIndex(c.grid, n.y), n.x) = c.background

\* canvas.grid[current.y][current.x] does not raise
CellOk(c, p) == PyIndexOk(c.grid, p.y) /\ PyIndexOk(PyIndex(c.grid, p.y), p.x)

\* a paint that adds the colour to the text of the cell
PaintAppend(c, p, color) ==
    LET r == PyPos(c.grid, p.y)
    IN  [c EXCEPT !.grid[r] =
            PySetItem(c.grid[r], p.x, PyIndex(c.grid[r], p.x) \o color)]

\* canvas.grid[current.y][current.x] = color
Paint(c, p, color) ==
    LET r == PyPos(c.grid, p.y)
    IN  [c EXCEPT !.grid[r] = PySetItem(c.grid[r], p.x, color)]

(***************************************************************************)
(* Recognition and parsing of one line.                                    *)
(***************************************************************************)
DigitChars == <<"0", "1", "2", "3", "4", "5", "6", "7", "8", "9">>

Digits == { DigitChars[i] : i \in 1..Len(DigitChars) }

Letters ==
    { "a", "b", "c", "d", "e", "f", "g", "h", "i", "j", "k", "l", "m",
      "n", "o", "p", "q", "r", "s", "t", "u", "v", "w", "x", "y", "z",
      "A", "B", "C", "D", "E", "F", "G", "H", "I", "J", "K", "L", "M",
      "N", "O", "P", "Q", "R", "S", "T", "U", "V", "W", "X", "Y", "Z" }

WordChars == Digits \cup Letters \cup {"_"}

\* the token matches \d+
IsDigits(tok) == Len(tok) > 0 /\ \A i \in 1..Len(tok) : tok[i] \in Digits

\* the token matches \w+
IsWord(tok) == Len(tok) > 0 /\ \A i \in 1..Len(tok) : tok[i] \in WordChars

DigitValue(ch) == (CHOOSE i \in 1..Len(DigitChars) : DigitChars[i] = ch) - 1

\* int(tok) of a token of digits
RECURSIVE int(_)
int(tok) ==
    IF tok = <<>> THEN 0
    ELSE int(SubSeq(tok, 1, Len(tok) - 1)) * 10 + DigitValue(tok[Len(tok)])

\* ^<letter> (\d+) ... (\d+)$ with n numbers
MatchesNumbers(line, letter, n) ==
    /\ Len(line) = n + 1
    /\ line[1] = <<letter>>
    /\ \A i \in 2..(n + 1) : IsDigits(line[i])

CanvasCommand_check_command(line) == MatchesNumbers(line, "C", 2)

\* a Line template that does not anchor the letter
LineCommand_check_any_letter(line) ==
    /\ Len(line) = 5
    /\ \A i \in 2..5 : IsDigits(line[i])

LineCommand_check_command(line) == MatchesNumbers(line, "L", 4)

RectangleCommand_check_command(line) == MatchesNumbers(line, "R", 4)

FillCommand_check_command(line) ==
    /\ Len(line) = 4
    /\ line[1] = <<"B">>
    /\ IsDigits(line[2]) /\ IsDigits(line[3])
    /\ IsWord(line[4])

CanvasCommand_parse(line) ==
    [cmd |-> CanvasCommand(int(line[2]), int(line[3])), raised |-> ""]

\* coords = [int(c) - 1 for c in m.groups()]
Coords(line) == [i \in 1..4 |-> int(line[i + 1]) - 1]

BadOrder(coords) == coords[3] < coords[1] \/ coords[4] < coords[2]

\* a Line parser without the ordering check
LineCommand_parse_unchecked(line) ==
    LET coords == Coords(line)
    IN  [cmd |-> LineCommand(coords[1], coords[2], coords[3], coords[4]),
         raised |-> ""]

\* a Line parser that also refuses a segment that is neither horizontal nor vertical
LineCommand_parse_strict(line) ==
    LET coords == Coords(line)
    IN  IF BadOrder(coords) \/ (coords[1] # coords[3] /\ coords[2] # coords[4])
        THEN [cmd |-> None, raised |-> "InvalidCommandArgs"]
        ELSE [cmd |-> LineCommand(coords[1], coords[2], coords[3], coords[4]),
              raised |-> ""]

LineCommand_parse(line) ==
    LET coords == Coords(line)
    IN  IF BadOrder(coords)
        THEN [cmd |-> None, raised |-> "InvalidCommandArgs"]
        ELSE [cmd |-> LineCommand(coords[1], coords[2], coords[3], coords[4]),
              raised |-> ""]

RectangleCommand_parse(line) ==
    LET coords == Coords(line)
    IN  IF BadOrder(coords)
        THEN [cmd |-> None, raised |-> "InvalidCommandArgs"]
        ELSE [cmd |-> RectangleCommand(coords[1], coords[2], coords[3], coords[4]),
              raised |-> ""]

FillCommand_parse(line) ==
    [cmd |-> FillCommand(int(line[2]) - 1, int(line[3]) - 1, line[4]),
     raised |-> ""]

available_commands ==
    <<"CanvasCommand", "LineCommand", "RectangleCommand", "FillCommand">>

check_command(cls, line) ==
    CASE cls = "CanvasCommand" -> CanvasCommand_check_command(line)
      [] cls = "LineCommand" -> LineCommand_check_command(line)
      [] cls = "RectangleCommand" -> RectangleCommand_check_command(line)
      [] cls = "FillCommand" -> FillCommand_check_command(line)

parse(cls, line) ==
    CASE cls = "CanvasCommand" -> CanvasCommand_parse(line)
      [] cls = "LineCommand" -> LineCommand_parse(line)
      [] cls = "RectangleCommand" -> RectangleCommand_parse(line)
      [] cls = "FillCommand" -> FillCommand_parse(line)

(***************************************************************************)
(* CommandParser.parse: result and what was raised.                        *)
(***************************************************************************)
\* for cmd in cls.available_commands: ..., for the classes from position k on
RECURSIVE ParseLine(_, _, _)
ParseLine(line, k, result) ==
    IF k > Len(available_commands) THEN [result |-> result, raised |-> ""]
    ELSE IF check_command(available_commands[k], line)
    THEN LET p == parse(available_commands[k], line)
         IN  IF p.raised # "" THEN [result |-> result, raised |-> p.raised]
             ELSE ParseLine(line, k + 1, Append(result, p.cmd))
    ELSE ParseLine(line, k + 1, result)

\* for line in data.splitlines(): ..., for the lines from position n on
RECURSIVE ParseLines(_, _, _)
ParseLines(lines, n, result) ==
    IF n > Len(lines) THEN [result |-> result, raised |-> ""]
    ELSE LET r == ParseLine(lines[n], 1, result)
         IN  IF r.raised # "" THEN r ELSE ParseLines(lines, n + 1, r.result)

CommandParser_parse(lines) == ParseLines(lines, 1, <<>>)

(***************************************************************************)
(* Inputs.                                                                 *)
(***************************************************************************)
\* the decimal text of a natural number
RECURSIVE Dec(_)
Dec(n) ==
    IF n < 10 THEN <<DigitChars[n + 1]>>
    ELSE Dec(n \div 10) \o <<DigitChars[(n % 10) + 1]>>

\* the line "<letter> <n1> <n2> ..."
NumLine(letter, nums) == <<letter>> \o [i \in 1..Len(nums) |-> Dec(nums[i])]

LineSet ==
    { NumLine(<<"C">>, <<3, 2>>),
      NumLine(<<"C">>, <<2, 1>>),
      NumLine(<<"C">>, <<0, 1>>),
      NumLine(<<"L">>, <<1, 1, 3, 1>>),
      NumLine(<<"L">>, <<2, 1, 2, 3>>),
      NumLine(<<"L">>, <<2, 1, 4, 1>>),
      NumLine(<<"L">>, <<0, 1, 1, 1>>),
      NumLine(<<"L">>, <<1, 1, 2, 2>>),
      NumLine(<<"L">>, <<2, 1, 1, 1>>),
      NumLine(<<"R">>, <<1, 1, 3, 2>>),
      NumLine(<<"R">>, <<2, 2, 1, 1>>),
      NumLine(<<"B">>, <<1, 2>>) \o << <<"o">> >>,
      NumLine(<<"B">>, <<3, 1>>) \o << <<"a", "b">> >>,
      NumLine(<<"R", "e">>, <<1, 1, 3, 2>>),
      <<<<>>>> \o NumLine(<<"L">>, <<1, 1, 3, 1>>) }

Texts == UNION { [1..n -> LineSet] : n \in 0..MaxLines }

Mark == <<"o">>

\* the canvases of width w and height h with at most marks marked cells
MarkedCanvases(w, h, marks) ==
    LET cellsOf == (0..(w - 1)) \X (0..(h - 1))
        markSets == { m \in SUBSET cellsOf : Cardinality(m) <= marks }
    IN  { [NewCanvas(w, h, Space, DefaultBrush) EXCEPT
              !.grid = [j \in 1..h |-> [i \in 1..w |->
                           IF <<i - 1, j - 1>> \in m THEN Mark ELSE Space]]]
          : m \in markSets }

DrawCanvases == UNION { MarkedCanvases(w, h, DrawMarks) : w \in 1..MaxW, h \in 1..MaxH }

DrawCommands ==
    { LineCommand(x1, y1, x2, y2) :
        x1 \in 0..(MaxW - 1), y1 \in 0..(MaxH - 1),
        x2 \in 0..(MaxW - 1), y2 \in 0..(MaxH - 1) }
    \cup
    { RectangleCommand(x1, y1, x2, y2) :
        x1 \in 0..(MaxW - 1), y1 \in 0..(MaxH - 1),
        x2 \in 0..(MaxW - 1), y2 \in 0..(MaxH - 1) }

FillCanvases == UNION { MarkedCanvases(w, h, FillMarks) : w \in 1..FillW, h \in 1..FillH }

FillColors == { <<"r">>, Space }

FillCommands ==
    { FillCommand(x, y, c) :
        x \in 0..(FillW - 1), y \in 0..(FillH - 1), c \in FillColors }

(***************************************************************************)
(* main: parse the whole text, then Invoker().execute_all(commands).       *)
(***************************************************************************)
Init ==
    /\ data \in Texts
    /\ commands = <<>>
    /\ pc = "main"
    /\ raised = ""
    /\ canvas = None
    /\ before = None
    /\ history = <<>>
    /\ idx = 0
    /\ cells = {}
    /\ painted = {}

Parse ==
    /\ pc = "main"
    /\ LET r == CommandParser_parse(data)
       IN  IF r.raised # ""
           THEN /\ raised' = r.raised
                /\ pc' = "error"
                /\ UNCHANGED <<commands, idx>>
           ELSE /\ commands' = r.result
                /\ idx' = 1
                /\ pc' = "exec"
                /\ UNCHANGED raised
    /\ UNCHANGED <<data, canvas, before, history, cells, painted>>

\* one iteration of the loop of execute_all is about to run
AtCommand == pc = "exec" /\ idx <= Len(commands)

\* a history that keeps only the latest snapshot
RecordLatest(c) == <<display(c)>>

\* a history whose entries all show the canvas as it is now
RecordAliased(c) == [k \in 1..(Len(history) + 1) |-> display(c)]

\* print(self.canvas.display()); self.history.append(self.canvas.display())
Record(c) == Append(history, display(c))

InvokeCreate ==
    /\ AtCommand
    /\ commands[idx].cls = "CanvasCommand"
    /\ canvas' = CanvasCommand_execute(commands[idx])
    /\ before' = canvas
    /\ history' = Record(canvas')
    /\ idx' = idx + 1
    /\ UNCHANGED <<data, commands, pc, raised, cells, painted>>

\* an execute_all that passes the missing canvas on to the command
InvokeSkipRaises ==
    /\ AtCommand
    /\ commands[idx].cls # "CanvasCommand"
    /\ canvas = None
    /\ raised' = "AttributeError"
    /\ pc' = "error"
    /\ UNCHANGED <<data, commands, canvas, before, history, idx, cells, painted>>

InvokeSkip ==
    /\ AtCommand
    /\ commands[idx].cls # "CanvasCommand"
    /\ canvas = None
    /\ idx' = idx + 1
    /\ UNCHANGED <<data, commands, pc, raised, canvas, before, history, cells, painted>>

execute(cmd, c) ==
    CASE cmd.cls = "LineCommand" -> LineCommand_execute(cmd, c)
      [] cmd.cls = "RectangleCommand" -> RectangleCommand_execute(cmd, c)

\* an execute_all that catches what a command raises and goes on
InvokeDrawRecovers ==
    /\ AtCommand
    /\ commands[idx].cls \in {"LineCommand", "RectangleCommand"}
    /\ canvas # None
    /\ LET r == execute(commands[idx], canvas)
       IN  /\ canvas' = r.canvas
           /\ before' = canvas
           /\ history' = IF r.raised # "" THEN history ELSE Record(r.canvas)
    /\ idx' = idx + 1
    /\ UNCHANGED <<data, commands, pc, raised, cells, painted>>

InvokeDraw ==
    /\ AtCommand
    /\ commands[idx].cls \in {"LineCommand", "RectangleCommand"}
    /\ canvas # None
    /\ LET r == execute(commands[idx], canvas)
       IN  /\ canvas' = r.canvas
           /\ before' = canvas
           /\ IF r.raised # ""
              THEN /\ raised' = r.raised
                   /\ pc' = "error"
                   /\ UNCHANGED <<history, idx>>
              ELSE /\ history' = Record(r.canvas)
                   /\ idx' = idx + 1
                   /\ UNCHANGED <<pc, raised>>
    /\ UNCHANGED <<data, commands, cells, painted>>

\* command.execute(canvas=self.canvas) of a FillCommand: cells = set([self.point])
InvokeFill ==
    /\ AtCommand
    /\ commands[idx].cls = "FillCommand"
    /\ canvas # None
    /\ cells' = {commands[idx].point}
    /\ painted' = {}
    /\ before' = canvas
    /\ pc' = "fill"
    /\ UNCHANGED <<data, commands, raised, canvas, history, idx>>

\* one iteration of "while cells": pop any cell, paint it, add its neighbours
FillStep ==
    /\ pc = "fill"
    /\ \E current \in cells :
          IF ~CellOk(canvas, current)
          THEN /\ raised' = "IndexError"
               /\ pc' = "error"
               /\ cells' = cells \ {current}
               /\ UNCHANGED <<canvas, painted>>
          ELSE LET after == Paint(canvas, current, commands[idx].color)
               IN  /\ canvas' = after
                   /\ painted' = painted \cup {current}
                   /\ cells' = (cells \ {current}) \cup
                         { n \in Neighbours(current) : FillAccepts(after, n) }
                   /\ UNCHANGED <<pc, raised>>
    /\ UNCHANGED <<data, commands, before, history, idx>>

\* the fill returned to execute_all
InvokeFilled ==
    /\ pc = "fill"
    /\ cells = {}
    /\ history' = Record(canvas)
    /\ idx' = idx + 1
    /\ pc' = "exec"
    /\ UNCHANGED <<data, commands, raised, canvas, before, cells, painted>>

\* the loop of execute_all ended
Finish ==
    /\ pc = "exec"
    /\ idx > Len(commands)
    /\ pc' = "done"
    /\ UNCHANGED <<data, commands, raised, canvas, before, history, idx, cells, painted>>

Next ==
    \/ Parse
    \/ InvokeCreate
    \/ InvokeSkip
    \/ InvokeDraw
    \/ InvokeFill
    \/ FillStep
    \/ InvokeFilled
    \/ Finish

Spec == Init /\ [][Next]_vars

(***************************************************************************)
(* main on the texts that create a canvas, draw one rectangle on it and    *)
(* fill from one cell, as test_invoker_execution does.                     *)
(***************************************************************************)
\* the rectangles x1 < x2, y1 < y2 at least three cells long in one direction
ShieldBoxes ==
    { b \in (1..ShieldW) \X (1..ShieldH) \X (1..ShieldW) \X (1..ShieldH) :
        b[1] < b[3] /\ b[2] < b[4] /\ (b[1] + 1 < b[3] \/ b[2] + 1 < b[4]) }

ShieldTexts ==
    { << NumLine(<<"C">>, <<ShieldW, ShieldH>>),
         NumLine(<<"R">>, b),
         NumLine(<<"B">>, <<x, y>>) \o << <<"o">> >> >> :
        b \in ShieldBoxes, x \in 1..ShieldW, y \in 1..ShieldH }

InitShield ==
    /\ data \in ShieldTexts
    /\ commands = <<>>
    /\ pc = "main"
    /\ raised = ""
    /\ canvas = None
    /\ before = None
    /\ history = <<>>
    /\ idx = 0
    /\ cells = {}
    /\ painted = {}

\* the steps of Next such a text can take: its first command is the Create
NextShield ==
    \/ Parse
    \/ InvokeCreate
    \/ InvokeDraw
    \/ InvokeFill
    \/ FillStep
    \/ InvokeFilled
    \/ Finish

SpecShield == InitShield /\ [][NextShield]_vars

(***************************************************************************)
(* A command executed directly on a canvas, as the tests do:               *)
(* command.execute(canvas).                                                *)
(***************************************************************************)
InitDirect(canvases, cmds) ==
    /\ data = <<>>
    /\ commands \in { <<c>> : c \in cmds }
    /\ pc = "call"
    /\ raised = ""
    /\ canvas \in canvases
    /\ before = canvas
    /\ history = <<>>
    /\ idx = 1
    /\ cells = {}
    /\ painted = {}

InitDraw == InitDirect(DrawCanvases, DrawCommands)

\* the fills whose colour is not the background of the canvases
InkCommands == { f \in FillCommands : f.color # Space }

InitFill == InitDirect(FillCanvases, InkCommands)

InitFillAny == InitDirect(FillCanvases, FillCommands)

DirectDraw ==
    /\ pc = "call"
    /\ commands[idx].cls \in {"LineCommand", "RectangleCommand"}
    /\ LET r == execute(commands[idx], canvas)
       IN  /\ canvas' = r.canvas
           /\ raised' = r.raised
           /\ pc' = IF r.raised # "" THEN "error" ELSE "returned"
    /\ UNCHANGED <<data, commands, before, history, idx, cells, painted>>

DirectFill ==
    /\ pc = "call"
    /\ commands[idx].cls = "FillCommand"
    /\ cells' = {commands[idx].point}
    /\ painted' = {}
    /\ pc' = "fill"
    /\ UNCHANGED <<data, commands, raised, canvas, before, history, idx>>

DirectFilled ==
    /\ pc = "fill"
    /\ cells = {}
    /\ pc' = "returned"
    /\ UNCHANGED <<data, commands, raised, canvas, before, history, idx, cells, painted>>

NextDraw == DirectDraw

SpecDraw == InitDraw /\ [][NextDraw]_vars

NextFill ==
    \/ DirectFill
    \/ FillStep
    \/ DirectFilled

SpecFill == InitFill /\ [][NextFill]_vars

\* a call runs to its end: the interpreter always takes the next step
SpecFillFair ==
    /\ InitFillAny
    /\ [][NextFill]_vars
    /\ WF_vars(DirectFill)
    /\ WF_vars(FillStep)
    /\ WF_vars(DirectFilled)

\* the same Fill executed a second time on the canvas the first one left
InitRefill ==
    /\ data = <<>>
    /\ commands \in { <<f, f>> : f \in InkCommands }
    /\ pc = "call"
    /\ raised = ""
    /\ canvas \in FillCanvases
    /\ before = canvas
    /\ history = <<>>
    /\ idx = 1
    /\ cells = {}
    /\ painted = {}

DirectAgain ==
    /\ pc = "returned"
    /\ idx < Len(commands)
    /\ idx' = idx + 1
    /\ before' = canvas
    /\ pc' = "call"
    /\ UNCHANGED <<data, commands, raised, canvas, history, cells, painted>>

NextRefill ==
    \/ DirectFill
    \/ FillStep
    \/ DirectFilled
    \/ DirectAgain

SpecRefill == InitRefill /\ [][NextRefill]_vars

(***************************************************************************)
(* Vocabulary of the properties.                                           *)
(***************************************************************************)
\* the points of a width x height grid
GridPoints(c) == { Point(x, y) : x \in 0..(c.width - 1), y \in 0..(c.height - 1) }

Inside(c, p) == p \in GridPoints(c)

\* the grid has height rows of width cells
Rectangular(c) ==
    /\ Len(c.grid) = c.height
    /\ \A j \in 1..Len(c.grid) : Len(c.grid[j]) = c.width

CellAt(c, p) == c.grid[p.y + 1][p.x + 1]

Abs(n) == IF n < 0 THEN -n ELSE n

Adjacent(p, q) == Abs(p.x - q.x) + Abs(p.y - q.y) = 1

\* the least set of background cells of c that holds S and is closed under Adjacent
RECURSIVE Closure(_, _)
Closure(c, S) ==
    LET T == S \cup { q \in GridPoints(c) :
                        /\ CellAt(c, q) = c.background
                        /\ \E p \in S : Adjacent(p, q) }
    IN  IF T = S THEN S ELSE Closure(c, T)

\* the maximal 4-connected region of background cells of c that contains p
Region(c, p) == Closure(c, {p})

\* the command whose execute was entered last
Executed == commands[IF pc \in {"call", "fill", "error", "returned"} THEN idx ELSE idx - 1]

\* the position of the first CanvasCommand, Len + 1 when there is none
FirstCreate(cmds) ==
    IF \E k \in 1..Len(cmds) : cmds[k].cls = "CanvasCommand"
    THEN CHOOSE k \in 1..Len(cmds) :
            /\ cmds[k].cls = "CanvasCommand"
            /\ \A m \in 1..(k - 1) : cmds[m].cls # "CanvasCommand"
    ELSE Len(cmds) + 1

\* execute_all has been entered
Executing == pc \in {"exec", "fill", "done"} \/ (pc = "error" /\ idx >= 1)

(***************************************************************************)
(* C1.  A Fill from a background cell P inside the grid, with a colour     *)
(* other than the background, returns with exactly the cells of the        *)
(* maximal 4-connected background region of P set to the colour and every  *)
(* other cell as it was.                                                   *)
(***************************************************************************)
C1_Case ==
    /\ pc \in {"returned", "error"}
    /\ Executed.cls = "FillCommand"
    /\ Inside(before, Executed.point)
    /\ CellAt(before, Executed.point) = before.background
    /\ Executed.color # before.background

C1_FillExact ==
    C1_Case =>
        /\ pc = "returned"
        /\ Rectangular(canvas)
        /\ \A p \in GridPoints(before) :
              CellAt(canvas, p) =
                  IF p \in Region(before, Executed.point)
                  THEN Executed.color ELSE CellAt(before, p)

\* a fill of a region of several cells that a mark separates from other background
C1_Witness ==
    /\ C1_Case
    /\ pc = "returned"
    /\ Cardinality(Region(before, Executed.point)) >= 3
    /\ \E p \in GridPoints(before) :
          /\ p \notin Region(before, Executed.point)
          /\ CellAt(before, p) = before.background
          /\ CellAt(canvas, p) = before.background

(***************************************************************************)
(* C2.  In execute_all every command before the first Create is skipped:   *)
(* while the loop has not passed the first Create there is no canvas, no   *)
(* snapshot and no exception, and once it has passed it the canvas exists  *)
(* and has been recorded.                                                  *)
(***************************************************************************)
C2_MissingCanvasSkipped ==
    Executing =>
        /\ idx <= FirstCreate(commands) =>
              /\ canvas = None
              /\ history = <<>>
              /\ raised = ""
              /\ pc \in {"exec", "done"}
        /\ idx > FirstCreate(commands) =>
              /\ canvas # None
              /\ history # <<>>
        /\ pc = "done" => idx = Len(commands) + 1

\* a run that skipped a command, then created a canvas and drew on it
C2_Witness ==
    /\ pc = "done"
    /\ FirstCreate(commands) = 2
    /\ Len(commands) = 3
    /\ commands[1].cls = "LineCommand"
    /\ Len(history) = 2
    /\ history[1] # history[2]

(***************************************************************************)
(* C3.  While execute_all runs without an error, history holds one         *)
(* snapshot per command at or after the first Create that has been         *)
(* processed, the first is the rendering of the blank canvas of that       *)
(* Create, and every snapshot appended is the rendering of the canvas as   *)
(* the command left it.                                                    *)
(***************************************************************************)
C3_HistoryAccounting ==
    [][ (pc' \in {"exec", "done"}) =>
          /\ Len(history') = Max(idx' - FirstCreate(commands'), 0)
          /\ history' # <<>> =>
                LET first == commands'[FirstCreate(commands')]
                IN  history'[1] = display(Canvas(first.width, first.height))
          /\ history' # history =>
                history' = Append(history, display(canvas'))
          /\ pc' = "done" =>
                Len(history') = Len(commands') + 1 - FirstCreate(commands')
      ]_vars

\* a finished run of three commands, the first skipped, with two different snapshots
C3_Witness ==
    /\ pc = "done"
    /\ raised = ""
    /\ Len(commands) = 3
    /\ FirstCreate(commands) = 2
    /\ Len(history) = 2
    /\ history[2] = display(canvas)
    /\ history[1] # history[2]

(***************************************************************************)
(* C4.  The grid of the current canvas has height rows of width cells      *)
(* after any sequence of commands applied through the Invoker.             *)
(***************************************************************************)
C4_GridDimensions == (Executing /\ canvas # None) => Rectangular(canvas)

(***************************************************************************)
(* C5.  An axis-aligned Line with ordered end points inside the grid       *)
(* returns with exactly the cells of its segment set to the brush and      *)
(* every other cell as it was.                                             *)
(***************************************************************************)
InBox(p, start, end) ==
    /\ start.x <= p.x /\ p.x <= end.x
    /\ start.y <= p.y /\ p.y <= end.y

C5_Case ==
    /\ pc \in {"returned", "error"}
    /\ Executed.cls = "LineCommand"
    /\ Inside(before, Executed.start) /\ Inside(before, Executed.end)
    /\ Executed.start.x <= Executed.end.x
    /\ Executed.start.y <= Executed.end.y
    /\ (Executed.start.x = Executed.end.x \/ Executed.start.y = Executed.end.y)

C5_LineExact ==
    C5_Case =>
        /\ pc = "returned"
        /\ Rectangular(canvas)
        /\ \A p \in GridPoints(before) :
              CellAt(canvas, p) =
                  IF InBox(p, Executed.start, Executed.end)
                  THEN before.brush ELSE CellAt(before, p)

\* a horizontal line of three cells drawn over a marked cell
C5_Witness ==
    /\ C5_Case
    /\ pc = "returned"
    /\ Executed.end.x = Executed.start.x + 2
    /\ \E p \in GridPoints(before) :
          /\ InBox(p, Executed.start, Executed.end)
          /\ CellAt(before, p) = Mark
          /\ CellAt(canvas, p) = before.brush

(***************************************************************************)
(* C6.  A Rectangle with x1 < x2 and y1 < y2 inside the grid returns with  *)
(* every cell of its four edges set to the brush and every other cell,     *)
(* interior or exterior, as it was.                                        *)
(***************************************************************************)
OnEdge(p, start, end) ==
    /\ InBox(p, start, end)
    /\ (p.x \in {start.x, end.x} \/ p.y \in {start.y, end.y})

C6_Case ==
    /\ pc \in {"returned", "error"}
    /\ Executed.cls = "RectangleCommand"
    /\ Inside(before, Executed.start) /\ Inside(before, Executed.end)
    /\ Executed.start.x < Executed.end.x
    /\ Executed.start.y < Executed.end.y

C6_RectangleHollow ==
    C6_Case =>
        /\ pc = "returned"
        /\ Rectangular(canvas)
        /\ \A p \in GridPoints(before) :
              CellAt(canvas, p) =
                  IF OnEdge(p, Executed.start, Executed.end)
                  THEN before.brush ELSE CellAt(before, p)

\* a rectangle drawn around a marked interior cell
C6_Witness ==
    /\ C6_Case
    /\ pc = "returned"
    /\ \E p \in GridPoints(before) :
          /\ InBox(p, Executed.start, Executed.end)
          /\ ~OnEdge(p, Executed.start, Executed.end)
          /\ CellAt(before, p) = Mark
          /\ CellAt(canvas, p) = Mark

(***************************************************************************)
(* C7.  Executing a Line with x1 # x2 and y1 # y2 raises the execution     *)
(* error, whatever the order of its end points, and leaves the canvas as   *)
(* it was.                                                                 *)
(***************************************************************************)
C7_Case ==
    /\ pc \in {"returned", "error"}
    /\ Executed.cls = "LineCommand"
    /\ Executed.start.x # Executed.end.x
    /\ Executed.start.y # Executed.end.y

C7_DiagonalFails ==
    C7_Case =>
        /\ pc = "error"
        /\ raised = "ExecutionError"
        /\ canvas = before

\* a diagonal whose end point lies before its start
C7_Witness ==
    /\ C7_Case
    /\ raised = "ExecutionError"
    /\ Executed.end.x < Executed.start.x
    /\ Executed.end.y > Executed.start.y

(***************************************************************************)
(* C8.  When a line of the text matches the Line or Rectangle grammar with *)
(* x2 < x1 or y2 < y1, parse raises the invalid-arguments error and no     *)
(* command of the text is executed: no canvas, empty history.              *)
(***************************************************************************)
InvalidLine(line) ==
    /\ Len(line) = 5
    /\ line[1] \in { <<"L">>, <<"R">> }
    /\ \A i \in 2..5 : IsDigits(line[i])
    /\ (int(line[4]) < int(line[2]) \/ int(line[5]) < int(line[3]))

C8_Case == pc # "main" /\ \E n \in 1..Len(data) : InvalidLine(data[n])

C8_InvalidArgsAbort ==
    C8_Case =>
        /\ pc = "error"
        /\ raised = "InvalidCommandArgs"
        /\ commands = <<>>
        /\ canvas = None
        /\ history = <<>>

\* the invalid line comes after a Create and a Line that would have been executed
C8_Witness ==
    /\ C8_Case
    /\ pc = "error"
    /\ Len(data) = 3
    /\ CanvasCommand_check_command(data[1])
    /\ LineCommand_check_command(data[2]) /\ ~InvalidLine(data[2])
    /\ InvalidLine(data[3])

(***************************************************************************)
(* C9.  When parse returns, its result holds one command per line that     *)
(* matches one of the four grammars and none for any other line, in the    *)
(* order of the lines, each command being of the class of its line's       *)
(* letter with the numbers of the line.                                    *)
(***************************************************************************)
Recognised(line) ==
    \E k \in 1..Len(available_commands) : check_command(available_commands[k], line)

\* the positions of the recognised lines, in order
RecognisedPositions(lines) ==
    SelectSeq([n \in 1..Len(lines) |-> n], LAMBDA n : Recognised(lines[n]))

\* the command a recognised line stands for
CommandOf(line) ==
    CASE line[1] = <<"C">> -> CanvasCommand(int(line[2]), int(line[3]))
      [] line[1] = <<"L">> -> LineCommand(int(line[2]) - 1, int(line[3]) - 1,
                                          int(line[4]) - 1, int(line[5]) - 1)
      [] line[1] = <<"R">> -> RectangleCommand(int(line[2]) - 1, int(line[3]) - 1,
                                               int(line[4]) - 1, int(line[5]) - 1)
      [] line[1] = <<"B">> -> FillCommand(int(line[2]) - 1, int(line[3]) - 1, line[4])

C9_ParserFilter ==
    Executing =>
        LET pos == RecognisedPositions(data)
        IN  /\ Len(commands) = Len(pos)
            /\ \A k \in 1..Len(pos) : commands[k] = CommandOf(data[pos[k]])

\* a text whose middle line is not recognised and whose other lines are
C9_Witness ==
    /\ Executing
    /\ Len(data) = 3
    /\ Recognised(data[1]) /\ ~Recognised(data[2]) /\ Recognised(data[3])
    /\ Len(commands) = 2
    /\ commands[1].cls # commands[2].cls

(***************************************************************************)
(* C10.  A Create executed by execute_all makes the current canvas a grid  *)
(* of height rows of width background cells, whatever the canvas before,   *)
(* keeps the snapshots of history and appends one.                         *)
(***************************************************************************)
Blank(c, w, h) ==
    /\ c.width = w /\ c.height = h
    /\ Len(c.grid) = h
    /\ \A j \in 1..h :
          /\ Len(c.grid[j]) = w
          /\ \A i \in 1..w : c.grid[j][i] = c.background

C10_CreateFresh ==
    [][ (AtCommand /\ commands[idx].cls = "CanvasCommand") =>
          /\ Blank(canvas', commands[idx].width, commands[idx].height)
          /\ canvas'.background = Space
          /\ Len(history') = Len(history) + 1
          /\ SubSeq(history', 1, Len(history)) = history
          /\ history'[Len(history')] = display(canvas')
      ]_vars

\* a second Create after a canvas that had been drawn on
C10_Witness ==
    /\ pc \in {"exec", "done"}
    /\ idx = 4
    /\ commands[3].cls = "CanvasCommand"
    /\ before # None
    /\ \E j \in 1..Len(before.grid) : \E i \in 1..Len(before.grid[j]) :
          before.grid[j][i] # before.background
    /\ Blank(canvas, commands[3].width, commands[3].height)
    /\ canvas.width > 0
    /\ Len(history) = 3

(***************************************************************************)
(* C11.  A Fill whose seed cell holds a colour other than the background   *)
(* paints the seed cell only: no neighbour enters the frontier and every   *)
(* other cell stays as it was.                                             *)
(***************************************************************************)
C11_Case ==
    /\ pc \in {"fill", "returned", "error"}
    /\ Executed.cls = "FillCommand"
    /\ Inside(before, Executed.point)
    /\ CellAt(before, Executed.point) # before.background

C11_SeedOnly ==
    C11_Case =>
        /\ cells \subseteq {Executed.point}
        /\ painted \subseteq {Executed.point}
        /\ \A p \in GridPoints(before) \ {Executed.point} :
              CellAt(canvas, p) = CellAt(before, p)

(***************************************************************************)
(* C12.  After any sequence of parsed commands applied through the         *)
(* Invoker every cell of the grid holds a string of exactly one character. *)
(***************************************************************************)
C12_SingleCharacter ==
    (Executing /\ canvas # None) =>
        \A j \in 1..Len(canvas.grid) : \A i \in 1..Len(canvas.grid[j]) :
            Len(canvas.grid[j][i]) = 1

(***************************************************************************)
(* C13.  A Fill from a point inside the grid with a colour other than the  *)
(* background, executed a second time right after the first, leaves the    *)
(* grid as the first execution left it.                                    *)
(***************************************************************************)
C13_Case ==
    /\ idx = 2
    /\ pc \in {"returned", "error"}
    /\ Inside(before, Executed.point)
    /\ Executed.color # before.background

C13_FillIdempotent ==
    C13_Case =>
        /\ pc = "returned"
        /\ canvas = before

\* the first execution painted several cells and left background behind a mark
C13_Witness ==
    /\ C13_Case
    /\ pc = "returned"
    /\ Cardinality({ p \in GridPoints(before) :
                        CellAt(before, p) = Executed.color }) >= 3
    /\ \E p \in GridPoints(before) : CellAt(canvas, p) = before.background
    /\ painted = {Executed.point}

(***************************************************************************)
(* C14.  On a fresh canvas, after a Rectangle with x1 < x2 and y1 < y2     *)
(* inside the grid, a Fill seeded at a background cell outside the         *)
(* rectangle leaves every border cell equal to the brush and every         *)
(* strictly interior cell equal to the background, and the run ends with   *)
(* three snapshots in history.                                             *)
(***************************************************************************)
C14_Case ==
    /\ Executing
    /\ idx >= 3
    /\ Len(commands) = 3
    /\ commands[1].cls = "CanvasCommand"
    /\ commands[2].cls = "RectangleCommand"
    /\ commands[3].cls = "FillCommand"
    /\ Inside(canvas, commands[2].start) /\ Inside(canvas, commands[2].end)
    /\ commands[2].start.x < commands[2].end.x
    /\ commands[2].start.y < commands[2].end.y
    /\ Inside(canvas, commands[3].point)
    /\ ~InBox(commands[3].point, commands[2].start, commands[2].end)

C14_RectangleShields ==
    C14_Case =>
        /\ pc # "error"
        /\ \A p \in GridPoints(canvas) :
              /\ OnEdge(p, commands[2].start, commands[2].end) =>
                    CellAt(canvas, p) = canvas.brush
              /\ (InBox(p, commands[2].start, commands[2].end)
                    /\ ~OnEdge(p, commands[2].start, commands[2].end)) =>
                    CellAt(canvas, p) = canvas.background
        /\ pc = "done" => Len(history) = 3

\* a finished run whose fill painted cells outside a rectangle with an interior
C14_Witness ==
    /\ C14_Case
    /\ pc = "done"
    /\ Len(history) = 3
    /\ \E p \in GridPoints(canvas) :
          /\ InBox(p, commands[2].start, commands[2].end)
          /\ ~OnEdge(p, commands[2].start, commands[2].end)
          /\ CellAt(canvas, p) = canvas.background
    /\ Cardinality({ p \in GridPoints(canvas) :
                        CellAt(canvas, p) = commands[3].color }) >= 3

(***************************************************************************)
(* C15.  A Fill from a point inside the grid, of any colour, the           *)
(* background colour included, reaches an empty frontier and returns, and  *)
(* no iteration of its loop writes a cell it has written before.           *)
(***************************************************************************)
C15_Case == Executed.cls = "FillCommand" /\ Inside(before, Executed.point)

C15_FillTerminatesPaintsOnce ==
    /\ C15_Case => <>(pc = "returned")
    /\ [][ (C15_Case /\ pc = "fill" /\ pc' = "fill") => painted' # painted ]_vars

(***************************************************************************)
(* C16.  The grid a Fill with a colour other than the background ends with *)
(* does not depend on the order in which cells leave the frontier: in      *)
(* every order it is the grid with the seed and every background cell      *)
(* connected to it painted, and nothing is painted when the seed lies      *)
(* beyond the grid.                                                        *)
(***************************************************************************)
C16_Case ==
    /\ pc \in {"returned", "error"}
    /\ Executed.cls = "FillCommand"
    /\ Executed.color # before.background

C16_OrderIndependent ==
    C16_Case =>
        IF Inside(before, Executed.point)
        THEN /\ pc = "returned"
             /\ canvas =
                  [before EXCEPT !.grid =
                      [j \in 1..before.height |-> [i \in 1..before.width |->
                          IF Point(i - 1, j - 1) \in Closure(before, {Executed.point})
                          THEN Executed.color ELSE before.grid[j][i]]]]
        ELSE /\ raised = "IndexError"
             /\ canvas = before

\* a fill from a marked seed that painted four cells or more and kept a mark
C16_Witness ==
    /\ C16_Case
    /\ pc = "returned"
    /\ CellAt(before, Executed.point) = Mark
    /\ Cardinality(painted) >= 4
    /\ \E p \in GridPoints(before) : CellAt(canvas, p) = Mark

(***************************************************************************)
(* C17.  When execute_all reaches a diagonal Line while a canvas exists,   *)
(* the run ends there with the execution error: no snapshot is appended,   *)
(* the canvas is as it was, history holds the snapshots of the commands    *)
(* from the first Create up to the one before, and no later command is     *)
(* executed.                                                               *)
(***************************************************************************)
Diagonal(cmd) ==
    /\ cmd.cls = "LineCommand"
    /\ cmd.start.x # cmd.end.x
    /\ cmd.start.y # cmd.end.y

C17_ExecutionErrorFatal ==
    [][ /\ (AtCommand /\ canvas # None /\ Diagonal(commands[idx])) =>
              /\ pc' = "error"
              /\ raised' = "ExecutionError"
              /\ idx' = idx
              /\ canvas' = canvas
              /\ history' = history
              /\ Len(history') = idx - FirstCreate(commands)
        /\ pc # "error"
      ]_vars

\* a run stopped at its second command, a diagonal, with a third one never executed
C17_Witness ==
    /\ pc = "error"
    /\ raised = "ExecutionError"
    /\ idx = 2
    /\ Len(commands) = 3
    /\ Diagonal(commands[2])
    /\ commands[3].cls = "LineCommand" /\ ~Diagonal(commands[3])
    /\ Len(history) = 1

\* a line of the Line grammar whose end point is left of or above its start
DisorderedLine(line) ==
    /\ LineCommand_check_command(line)
    /\ (int(line[4]) < int(line[2]) \/ int(line[5]) < int(line[3]))

\* a line of the Line grammar whose segment is neither horizontal nor vertical
DiagonalLine(line) ==
    /\ LineCommand_check_command(line)
    /\ int(line[2]) # int(line[4])
    /\ int(line[3]) # int(line[5])

(***************************************************************************)
(* C18.  Parsing a text raises the invalid-arguments error whenever a line *)
(* of the Line grammar is diagonal or has its end point before its start,  *)
(* so the parsed commands never hold a diagonal Line.                      *)
(***************************************************************************)
C18_ParseRejectsDiagonal ==
    pc # "main" =>
        /\ (\E n \in 1..Len(data) : DiagonalLine(data[n]) \/ DisorderedLine(data[n]))
              => raised = "InvalidCommandArgs"
        /\ \A k \in 1..Len(commands) : ~Diagonal(commands[k])

(***************************************************************************)
(* C18, as the code has it.  Parsing raises the invalid-arguments error    *)
(* exactly when a Line or Rectangle line has x2 < x1 or y2 < y1.  A        *)
(* diagonal line of the Line grammar with x2 >= x1 and y2 >= y1 is not     *)
(* refused: the parser produces its Line command, with the coordinates of  *)
(* the line minus one, and every Line command produced has its end point   *)
(* not before its start.                                                   *)
(***************************************************************************)
C18_ParseRejectsDisorder ==
    pc # "main" =>
        /\ (raised = "InvalidCommandArgs") <=>
              (\E n \in 1..Len(data) : InvalidLine(data[n]))
        /\ (\E n \in 1..Len(data) : DisorderedLine(data[n])) =>
              (pc = "error" /\ commands = <<>>)
        /\ (\A n \in 1..Len(data) : ~InvalidLine(data[n])) =>
              \A n \in 1..Len(data) :
                  DiagonalLine(data[n]) =>
                      \E k \in 1..Len(commands) :
                          /\ commands[k] = CommandOf(data[n])
                          /\ Diagonal(commands[k])
        /\ \A k \in 1..Len(commands) :
              commands[k].cls = "LineCommand" =>
                  /\ commands[k].end.x >= commands[k].start.x
                  /\ commands[k].end.y >= commands[k].start.y

\* a text with a diagonal line has been parsed into commands without an error
C18_Witness ==
    /\ pc = "exec"
    /\ raised = ""
    /\ \E n \in 1..Len(data) : DiagonalLine(data[n])
    /\ \E k \in 1..Len(commands) : Diagonal(commands[k])

(***************************************************************************)
(* C19.  Every command the parser produces carries valid coordinates: a    *)
(* Create has width >= 1 and height >= 1, and a Line, Rectangle or Fill    *)
(* has all its zero-based coordinates >= 0.                                *)
(***************************************************************************)
ValidCoordinates(cmd) ==
    CASE cmd.cls = "CanvasCommand" -> cmd.width >= 1 /\ cmd.height >= 1
      [] cmd.cls \in {"LineCommand", "RectangleCommand"} ->
            /\ cmd.start.x >= 0 /\ cmd.start.y >= 0
            /\ cmd.end.x >= 0 /\ cmd.end.y >= 0
      [] cmd.cls = "FillCommand" -> cmd.point.x >= 0 /\ cmd.point.y >= 0

C19_ValidCoordinates ==
    Executing => \A k \in 1..Len(commands) : ValidCoordinates(commands[k])

(***************************************************************************)
(* C20.  History is append-only: every step of a run leaves the history it *)
(* found as a prefix of the history it leaves, so a snapshot once recorded *)
(* is never altered or removed, neither by a later Create nor by a later   *)
(* change of the same canvas.                                              *)
(***************************************************************************)
C20_HistoryAppendOnly ==
    [][ /\ Len(history') >= Len(history)
        /\ SubSeq(history', 1, Len(history)) = history
      ]_vars

\* one canvas changed twice after its creation: three snapshots, each unlike the next
C20_Witness ==
    /\ pc = "done"
    /\ Len(commands) = 3
    /\ commands[1].cls = "CanvasCommand"
    /\ commands[2].cls # "CanvasCommand"
    /\ commands[3].cls # "CanvasCommand"
    /\ Len(history) = 3
    /\ history[1] # history[2]
    /\ history[2] # history[3]
    /\ history[3] = display(canvas)

(***************************************************************************)
(* C21.  Executing a Rectangle never raises the diagonal execution error,  *)
(* whatever its four coordinates: each of the four segments it hands to    *)
(* draw_line has its two end points on one column or on one row.           *)
(***************************************************************************)
C21_Case ==
    /\ pc \in {"returned", "error"}
    /\ Executed.cls = "RectangleCommand"

C21_RectangleNeverDiagonal ==
    C21_Case =>
        /\ raised # "ExecutionError"
        /\ LET lines == RectangleLines(Executed)
           IN  /\ Len(lines) = 4
               /\ \A k \in 1..Len(lines) :
                     \/ lines[k][1].x = lines[k][2].x
                     \/ lines[k][1].y = lines[k][2].y

\* a Rectangle whose corners differ in both coordinates, the end left of the start
C21_Witness ==
    /\ C21_Case
    /\ pc = "returned"
    /\ Executed.start.x > Executed.end.x
    /\ Executed.start.y # Executed.end.y

====
